---- MODULE Spec2Model ----
(***************************************************************************)
(* A model of app.py, the invoicing and expense application: the Document  *)
(* (_data), the data file (DATA_FILE), the wall clock, and the request     *)
(* handlers that read and change them.                                     *)
(*                                                                         *)
(* Representation.  A Python str is a sequence of one-character strings,   *)
(* so that strip, split, int, float, strptime and the f-string formats are *)
(* computed and not assumed.  Python None is the one-element sequence None *)
(* (no text typed into a form equals it).  Amounts are integers: float     *)
(* arithmetic is taken as exact.  Requests are served one at a time, each  *)
(* handler is one action.                                                  *)
(***************************************************************************)
EXTENDS Integers, Sequences, FiniteSets, TLC

VARIABLES data, disk, now, resp

vars == <<data, disk, now, resp>>

-----------------------------------------------------------------------------
(* Bounds of the model.                                                    *)

\* the invoices numbered, the expenses recorded and the clock steps taken in
\* one run, together
MaxEvents == 3

-----------------------------------------------------------------------------
(* Text.                                                                   *)

None == <<"<None>">>

NoSettings == [none |-> TRUE]

Digits == <<"0", "1", "2", "3", "4", "5", "6", "7", "8", "9">>

IsDigit(c) == \E i \in 1..10 : Digits[i] = c

DigitVal(c) == (CHOOSE i \in 1..10 : Digits[i] = c) - 1

\* x or ""  for a str-or-None x
OrEmpty(x) == IF x = None THEN <<>> ELSE x

\* a Python truth test of a str-or-None
Truthy(x) == x # None /\ x # <<>>

\* d.get(k): the value, or None when the key is absent
Get(d, k) == IF k \in DOMAIN d THEN d[k] ELSE None

RECURSIVE LStrip(_)
LStrip(s) == IF s # <<>> /\ Head(s) = " " THEN LStrip(Tail(s)) ELSE s

RECURSIVE RStrip(_)
RStrip(s) ==
    IF s # <<>> /\ s[Len(s)] = " " THEN RStrip(SubSeq(s, 1, Len(s) - 1)) ELSE s

\* str.strip()
Strip(s) == RStrip(LStrip(s))

UpperChar(c) ==
    CASE c = "a" -> "A" [] c = "c" -> "C" [] c = "d" -> "D" [] c = "e" -> "E"
      [] c = "h" -> "H" [] c = "i" -> "I" [] c = "r" -> "R" [] c = "s" -> "S"
      [] c = "t" -> "T" [] OTHER -> c

\* str.upper()
Upper(s) == [i \in 1..Len(s) |-> UpperChar(s[i])]

\* the parts of s between the separators, scanning from index i, the current
\* part starting at index start
RECURSIVE SplitFrom(_, _, _, _)
SplitFrom(s, sep, i, start) ==
    IF i > Len(s) THEN <<SubSeq(s, start, Len(s))>>
    ELSE IF s[i] = sep
         THEN <<SubSeq(s, start, i - 1)>> \o SplitFrom(s, sep, i + 1, i + 1)
         ELSE SplitFrom(s, sep, i + 1, start)

\* str.split(sep): the list of the parts between the separators
Split(s, sep) == SplitFrom(s, sep, 1, 1)

RECURSIVE DigitsVal(_)
DigitsVal(s) ==
    IF s = <<>> THEN 0
    ELSE 10 * DigitsVal(SubSeq(s, 1, Len(s) - 1)) + DigitVal(s[Len(s)])

AllDigits(s) == s # <<>> /\ \A i \in 1..Len(s) : IsDigit(s[i])

\* str(n) for n >= 0
RECURSIVE Dec(_)
Dec(n) == IF n < 10 THEN <<Digits[n + 1]>> ELSE Dec(n \div 10) \o <<Digits[(n % 10) + 1]>>

\* str(n) of any integer
Str(n) == IF n < 0 THEN <<"-">> \o Dec(0 - n) ELSE Dec(n)

\* f"{n:0<w>d}" for n >= 0: zero-padded to at least w digits
RECURSIVE ZeroPad(_, _)
ZeroPad(s, w) == IF Len(s) >= w THEN s ELSE ZeroPad(<<"0">> \o s, w)

Pad(n, w) == ZeroPad(Dec(n), w)

\* f"{x:.2f}" of an amount
Fmt2f(x) == Str(x) \o <<".", "0", "0">>

\* int(s): <<TRUE, n>>, or <<FALSE, 0>> for ValueError
ParseInt(s) ==
    LET t == Strip(s)
    IN  IF AllDigits(t) THEN <<TRUE, DigitsVal(t)>> ELSE <<FALSE, 0>>

\* float(s): <<TRUE, n>>, or <<FALSE, 0>> for ValueError
ParseFloat(s) ==
    LET t == Strip(s)
    IN  IF AllDigits(t) THEN <<TRUE, DigitsVal(t)>>
        ELSE IF t # <<>> /\ Head(t) \in {"-", "+"} /\ AllDigits(Tail(t))
             THEN <<TRUE, IF Head(t) = "-" THEN 0 - DigitsVal(Tail(t))
                                      ELSE DigitsVal(Tail(t))>>
             ELSE <<FALSE, 0>>

-----------------------------------------------------------------------------
(* Dates.                                                                  *)

IsLeap(y) == (y % 4 = 0 /\ y % 100 # 0) \/ y % 400 = 0

DaysInMonth(y, m) ==
    IF m = 2 THEN (IF IsLeap(y) THEN 29 ELSE 28)
    ELSE IF m \in {4, 6, 9, 11} THEN 30 ELSE 31

\* the %m directive: 1[0-2] | 0[1-9] | [1-9]
MonthField(s) ==
    /\ AllDigits(s)
    /\ Len(s) \in {1, 2}
    /\ DigitsVal(s) \in 1..12

\* the %d directive: 3[01] | [12]\d | 0[1-9] | [1-9] | " "[1-9]
DayField(s) ==
    \/ /\ AllDigits(s)
       /\ Len(s) \in {1, 2}
       /\ DigitsVal(s) \in 1..31
    \/ /\ Len(s) = 2
       /\ s[1] = " "
       /\ IsDigit(s[2])
       /\ s[2] # "0"

\* datetime.strptime(s, "%Y-%m-%d").date(): <<TRUE, y, m, d>>, or
\* <<FALSE, 0, 0, 0>> for ValueError
StrpDate(s) ==
    LET p == Split(s, "-")
    IN  IF /\ Len(p) = 3
           /\ AllDigits(p[1])
           /\ Len(p[1]) = 4
           /\ MonthField(p[2])
           /\ DayField(p[3])
        THEN LET y == DigitsVal(p[1])
                 m == DigitsVal(p[2])
                 d == DigitsVal(LStrip(p[3]))
             IN  IF y >= 1 /\ d <= DaysInMonth(y, m)
                 THEN <<TRUE, y, m, d>>
                 ELSE <<FALSE, 0, 0, 0>>
        ELSE <<FALSE, 0, 0, 0>>

\* strftime("%Y-%m-%d")
FmtDate(y, m, d) == Pad(y, 4) \o <<"-">> \o Pad(m, 2) \o <<"-">> \o Pad(d, 2)

\* strftime("%Y-%m")
FmtMonth(y, m) == Pad(y, 4) \o <<"-">> \o Pad(m, 2)

-----------------------------------------------------------------------------
(* The wall clock: datetime.now().  The variable now counts clock steps;   *)
(* each step is ten months long, so that a run crosses a month and a year  *)
(* boundary.  Step 0 is 2024-03-15.                                        *)

NowYear == 2024 + ((2 + 10 * now) \div 12)

NowMonth == ((2 + 10 * now) % 12) + 1

NowDay == 15

\* now.strftime("%Y-%m-%d")
Today == FmtDate(NowYear, NowMonth, NowDay)

\* now.strftime("%Y-%m")
CurrentMonth == FmtMonth(NowYear, NowMonth)

\* now.strftime("%Y-%m-%d %H:%M:%S")
Timestamp == Today \o <<" ">> \o Pad(10, 2) \o <<":">> \o Pad(0, 2) \o <<":">> \o Pad(0, 2)

-----------------------------------------------------------------------------
(* The Document and the data file.                                         *)

EmptyDocument ==
    [store_settings |-> NoSettings, invoices |-> <<>>, invoice_counter |-> 0,
     expenses |-> <<>>]

\* An invoice written by an earlier version of the program: no invoice_date.
LegacyInvoice ==
    [invoice_number |-> <<"R", "S", "-", "2", "0", "2", "4", "-", "0", "0", "0", "1">>,
     created_at |-> <<"2", "0", "2", "4", "-", "0", "2", "-", "1", "0", " ",
                      "0", "9", ":", "0", "0", ":", "0", "0">>,
     customer_name |-> <<"a">>,
     customer_phone |-> <<>>,
     customer_address |-> <<>>,
     customer_gstin |-> <<>>,
     items |-> <<[description |-> <<"a">>, quantity |-> 2, unit_price |-> 2,
                  line_total |-> 4]>>,
     subtotal |-> 4,
     discount |-> 0,
     tax |-> 0,
     total |-> 4,
     payment_mode |-> <<"C", "R", "E", "D", "I", "T">>,
     payment_reference |-> <<>>,
     notes |-> <<>>,
     id |-> <<"1">>]

\* A data file of an earlier version: one invoice, no "expenses" key.
LegacyDocument ==
    [store_settings |-> NoSettings, invoices |-> <<LegacyInvoice>>,
     invoice_counter |-> 1]

\* What DATA_FILE can hold when the program starts.
StartFiles ==
    {[kind |-> "missing"],
     [kind |-> "corrupt"],
     [kind |-> "json", doc |-> EmptyDocument],
     [kind |-> "json", doc |-> LegacyDocument]}

\* _load_data()
LoadData(file) ==
    IF file.kind = "json" THEN file.doc ELSE EmptyDocument

\* the module-level fix-up: if "expenses" not in _data: _data["expenses"] = []
EnsureExpenses(doc) ==
    IF "expenses" \in DOMAIN doc
    THEN doc
    ELSE [k \in DOMAIN doc \cup {"expenses"} |->
             IF k = "expenses" THEN <<>> ELSE doc[k]]

\* _save_data(): the file is replaced by the serialized Document
SaveData(doc) == [kind |-> "json", doc |-> doc]

\* what a run has used of MaxEvents
Events == data.invoice_counter + Len(data.expenses) + now

Init ==
    /\ disk \in StartFiles
    /\ data = EnsureExpenses(LoadData(disk))
    /\ now = 0
    /\ resp = [op |-> "start", saves |-> 0]

\* the clock advances between requests
Tick ==
    /\ Events < MaxEvents
    /\ now' = now + 1
    /\ UNCHANGED <<data, disk, resp>>

-----------------------------------------------------------------------------
(* POST /invoice/new                                                       *)

\* the text of a CPython str, written as its characters
Credit == <<"C", "R", "E", "D", "I", "T">>

Cash == <<"C", "A", "S", "H">>

Mar15 == <<"2", "0", "2", "4", "-", "0", "3", "-", "1", "5">>

\* The invoice forms a run may submit.
InvoiceForms ==
    {[invoice_date |-> <<>>,
      descriptions |-> <<<<"a">>>>, quantities |-> <<<<"2">>>>,
      unit_prices |-> <<<<"3">>>>,
      discount |-> <<"5">>, tax |-> <<"1">>,
      payment_mode |-> <<"C", "r", "e", "d", "i", "t">>,
      notes |-> <<" ", "n", " ">>,
      customer_name |-> <<"a", " ">>],
     [invoice_date |-> <<"a", "b", "c">>,
      descriptions |-> <<<<" ">>, <<"b">>, <<" ", "c">>>>,
      quantities |-> <<<<"5">>, <<"x">>, <<"2">>, <<"7">>>>,
      unit_prices |-> <<<<"5">>, <<"4">>, <<"-", "3">>>>,
      discount |-> <<"x">>, tax |-> <<"1">>,
      payment_mode |-> None, notes |-> <<>>,
      customer_name |-> <<>>]}

\* float(x or 0) inside a try: <<TRUE, n>>, or <<FALSE, 0>> for ValueError
FloatOrZero(x) == IF Truthy(x) THEN ParseFloat(x) ELSE <<TRUE, 0>>

\* one pass of the for loop over zip(descriptions, quantities, unit_prices),
\* from row i on, with the items and the subtotal accumulated so far
RECURSIVE ItemLoop(_, _, _)
ItemLoop(form, i, acc) ==
    IF \/ i > Len(form.descriptions)
       \/ i > Len(form.quantities)
       \/ i > Len(form.unit_prices)
    THEN acc
    ELSE IF Strip(form.descriptions[i]) = <<>>
         THEN ItemLoop(form, i + 1, acc)
         ELSE LET q == FloatOrZero(form.quantities[i])
                  p == FloatOrZero(form.unit_prices[i])
                  qty == IF q[1] /\ p[1] THEN q[2] ELSE 0
                  price == IF q[1] /\ p[1] THEN p[2] ELSE 0
                  line_total == qty * price
              IN  ItemLoop(form, i + 1,
                      [items |-> Append(acc.items,
                                     [description |-> Strip(form.descriptions[i]),
                                      quantity |-> qty,
                                      unit_price |-> price,
                                      line_total |-> line_total]),
                       subtotal |-> acc.subtotal + line_total])

\* float(form.get(k) or 0), 0.0 on ValueError
Amount(x) == FloatOrZero(x)[2]

\* a total that takes the tax off
InvoiceTotal_taxoff(subtotal, discount, tax) == subtotal - discount - tax

\* total = subtotal - discount + tax
InvoiceTotal(subtotal, discount, tax) == subtotal - discount + tax

\* f"RS-{year}-{new_value:04d}"
InvoiceNumber(year, new_value) ==
    <<"R", "S", "-">> \o Str(year) \o <<"-">> \o Pad(new_value, 4)

\* a generator that stores the counter back without adding to it
NextCounter_stuck(doc) == doc.invoice_counter

\* generate_invoice_number(): the counter it stores
NextCounter(doc) == doc.invoice_counter + 1

\* an id taken from the invoice counter instead of the number stored
NewId_counter(doc) == Str(doc.invoice_counter + 1)

\* new_id = str(len(invoices) + 1)
NewId(doc) == Str(Len(doc.invoices) + 1)

\* the invoice_data dict, with its id
InvoiceData(form, doc) ==
    LET loop == ItemLoop(form, 1, [items |-> <<>>, subtotal |-> 0])
        discount == Amount(form.discount)
        tax == Amount(form.tax)
    IN  [invoice_number |-> InvoiceNumber(NowYear, NextCounter(doc)),
         created_at |-> Timestamp,
         invoice_date |-> IF Truthy(form.invoice_date) THEN form.invoice_date ELSE Today,
         customer_name |-> Strip(form.customer_name),
         customer_phone |-> <<>>,
         customer_address |-> <<>>,
         customer_gstin |-> <<>>,
         items |-> loop.items,
         subtotal |-> loop.subtotal,
         discount |-> discount,
         tax |-> tax,
         total |-> InvoiceTotal(loop.subtotal, discount, tax),
         payment_mode |-> form.payment_mode,
         payment_reference |-> <<>>,
         notes |-> Strip(OrEmpty(form.notes)),
         id |-> NewId(doc)]

new_invoice(form) ==
    /\ Events < MaxEvents
    /\ LET inv == InvoiceData(form, data)
       IN  /\ data' = [data EXCEPT !.invoice_counter = NextCounter(data),
                                   !.invoices = Append(@, inv)]
           /\ disk' = SaveData(data')
           /\ resp' = [op |-> "new_invoice", saves |-> 2,
                       flash |-> <<"Invoice created successfully.", "success">>,
                       invoice |-> inv]
    /\ UNCHANGED now

-----------------------------------------------------------------------------
(* Lookup by id, delete and convert.                                       *)

\* the ids a request may name
RequestIds == {<<"1">>, <<"2">>}

\* a lookup whose index starts at the first row instead of at "none found"
FindInvoice_first(invoices, invoice_id) ==
    IF \E i \in 1..Len(invoices) : Get(invoices[i], "id") = invoice_id
    THEN CHOOSE i \in 1..Len(invoices) :
             /\ Get(invoices[i], "id") = invoice_id
             /\ \A j \in 1..(i - 1) : Get(invoices[j], "id") # invoice_id
    ELSE IF invoices # <<>> THEN 1 ELSE 0

\* the index of the first invoice with inv.get("id") == invoice_id, or 0
FindInvoice(invoices, invoice_id) ==
    IF \E i \in 1..Len(invoices) : Get(invoices[i], "id") = invoice_id
    THEN CHOOSE i \in 1..Len(invoices) :
             /\ Get(invoices[i], "id") = invoice_id
             /\ \A j \in 1..(i - 1) : Get(invoices[j], "id") # invoice_id
    ELSE 0

\* list.pop(i)
Pop(s, i) == SubSeq(s, 1, i - 1) \o SubSeq(s, i + 1, Len(s))

\* a delete that renumbers the ids of the invoices left
DeleteResult_renumber(doc, index_to_remove) ==
    [doc EXCEPT !.invoices =
        [i \in 1..(Len(@) - 1) |->
            [Pop(@, index_to_remove)[i] EXCEPT !.id = Str(i)]]]

\* a delete that hands the number of the deleted invoice back
DeleteResult_decrement(doc, index_to_remove) ==
    [doc EXCEPT !.invoices = Pop(@, index_to_remove),
                !.invoice_counter = @ - 1]

\* the Document after invoices.pop(index_to_remove)
DeleteResult(doc, index_to_remove) ==
    [doc EXCEPT !.invoices = Pop(@, index_to_remove)]

\* POST /invoice/<invoice_id>/delete
delete_invoice(invoice_id) ==
    LET index_to_remove == FindInvoice(data.invoices, invoice_id)
    IN  /\ IF index_to_remove = 0
           THEN /\ resp' = [op |-> "delete_invoice", saves |-> 0,
                            flash |-> <<"Invoice not found.", "error">>]
                /\ UNCHANGED <<data, disk>>
           ELSE /\ data' = DeleteResult(data, index_to_remove)
                /\ disk' = SaveData(data')
                /\ resp' = [op |-> "delete_invoice", saves |-> 1,
                            flash |-> <<"Invoice deleted successfully.", "success">>]
        /\ UNCHANGED now

\* the fixed text that opens a conversion note
MarkerText == "[Converted from CREDIT to CASH on "

\* f"[Converted from CREDIT to CASH on {timestamp}]"
ConversionNote == <<MarkerText>> \o Timestamp \o <<"]">>

\* the notes of a converted invoice
ConvertedNotes(invoice) ==
    LET existing_notes == Strip(OrEmpty(Get(invoice, "notes")))
    IN  IF existing_notes # <<>>
        THEN existing_notes \o <<"\n">> \o ConversionNote
        ELSE ConversionNote

\* a test that compares the stored spelling itself
IsCredit_exact(invoice) == OrEmpty(Get(invoice, "payment_mode")) = Credit

\* the test that lets a conversion through
IsCredit(invoice) == Upper(OrEmpty(Get(invoice, "payment_mode"))) = Credit

\* POST /invoice/<invoice_id>/convert-credit-to-cash
convert_credit_to_cash(invoice_id) ==
    LET i == FindInvoice(data.invoices, invoice_id)
    IN  /\ IF i = 0
           THEN /\ resp' = [op |-> "convert_credit_to_cash", saves |-> 0,
                            flash |-> <<"Invoice not found.", "error">>,
                            invoice_id |-> invoice_id]
                /\ UNCHANGED <<data, disk>>
           ELSE IF ~IsCredit(data.invoices[i])
           THEN /\ resp' = [op |-> "convert_credit_to_cash", saves |-> 0,
                            flash |-> <<"Invoice is not in CREDIT payment mode.", "error">>,
                            invoice_id |-> invoice_id]
                /\ UNCHANGED <<data, disk>>
           ELSE /\ data' = [data EXCEPT
                               !.invoices[i] =
                                   [k \in DOMAIN @ \cup {"payment_mode", "notes"} |->
                                       IF k = "payment_mode" THEN Cash
                                       ELSE IF k = "notes" THEN ConvertedNotes(data.invoices[i])
                                       ELSE @[k]]]
                /\ disk' = SaveData(data')
                /\ resp' = [op |-> "convert_credit_to_cash", saves |-> 1,
                            flash |-> <<"Invoice payment changed from CREDIT to CASH.",
                                        "success">>,
                            invoice_id |-> invoice_id]
        /\ UNCHANGED now

-----------------------------------------------------------------------------
(* POST /expenses and POST /settings                                       *)

\* The expense forms a run may submit.
ExpenseForms ==
    {[date |-> <<>>, description |-> <<" ", "r">>, category |-> <<"c">>,
      amount |-> <<"2">>],
     [date |-> <<"2", "0", "2", "4", "-", "3", "-", "2", "0">>,
      description |-> <<"r">>, category |-> <<>>, amount |-> <<"1", "0">>],
     [date |-> <<"a", "b", "c">>, description |-> <<"s">>, category |-> <<>>,
      amount |-> <<"x">>]}

\* the dict appended to the expenses
ExpenseData(form, doc) ==
    [id |-> Str(Len(doc.expenses) + 1),
     date |-> IF Truthy(form.date) THEN form.date ELSE Today,
     description |-> Strip(form.description),
     category |-> Strip(form.category),
     amount |-> Amount(form.amount)]

expenses(form) ==
    /\ Events < MaxEvents
    /\ data' = [data EXCEPT !.expenses = Append(@, ExpenseData(form, data))]
    /\ disk' = SaveData(data')
    /\ resp' = [op |-> "expenses", saves |-> 1,
                flash |-> <<"Expense recorded.", "success">>]
    /\ UNCHANGED now

\* The settings forms a run may submit.
SettingsForms ==
    {[store_name |-> <<" ", "s">>, address |-> <<"a">>, phone |-> <<>>,
      email |-> <<>>, logo_url |-> <<>>]}

\* save_store_settings(data)
save_store_settings(doc, settings_data) ==
    [doc EXCEPT !.store_settings = settings_data]

\* a settings handler that leaves the file as it was
settings_unsaved(form) ==
    /\ data' = save_store_settings(data,
                   [store_name |-> Strip(form.store_name),
                    address |-> Strip(form.address),
                    phone |-> Strip(form.phone),
                    email |-> Strip(form.email),
                    logo_url |-> Strip(form.logo_url)])
    /\ resp' = [op |-> "settings", saves |-> 0,
                flash |-> <<"Store settings saved.", "success">>]
    /\ UNCHANGED <<disk, now>>

settings(form) ==
    /\ data' = save_store_settings(data,
                   [store_name |-> Strip(form.store_name),
                    address |-> Strip(form.address),
                    phone |-> Strip(form.phone),
                    email |-> Strip(form.email),
                    logo_url |-> Strip(form.logo_url)])
    /\ disk' = SaveData(data')
    /\ resp' = [op |-> "settings", saves |-> 1,
                flash |-> <<"Store settings saved.", "success">>]
    /\ UNCHANGED now

-----------------------------------------------------------------------------
(* GET /reports                                                            *)

Daily == <<"daily">>

Monthly == <<"monthly">>

\* The query strings a run may send to /reports and /reports/export.
ReportQueries ==
    {[period |-> None, date |-> <<"a", "b", "c">>, month |-> None],
     [period |-> Daily, date |-> <<"2", "0", "2", "4", "-", "3", "-", "2", "0">>,
      month |-> None],
     [period |-> Monthly, date |-> None,
      month |-> <<"2", "0", "2", "4", "-", "0", "3">>],
     [period |-> Monthly, date |-> Mar15, month |-> <<"a", "b", "c">>]}

\* year, month = map(int, selected_month.split("-")), the current year and
\* month on ValueError
YearMonth(selected_month) ==
    LET p == Split(selected_month, "-")
    IN  IF Len(p) = 2 /\ ParseInt(p[1])[1] /\ ParseInt(p[2])[1]
        THEN <<ParseInt(p[1])[2], ParseInt(p[2])[2]>>
        ELSE <<NowYear, NowMonth>>

\* a date taken from created_at whatever invoice_date holds
InvDateStr_created(inv) ==
    Split(IF "created_at" \in DOMAIN inv THEN inv.created_at ELSE <<>>, " ")[1]

\* inv.get("invoice_date") or inv.get("created_at", "").split(" ")[0]
InvDateStr(inv) ==
    IF Truthy(Get(inv, "invoice_date"))
    THEN inv.invoice_date
    ELSE Split(IF "created_at" \in DOMAIN inv THEN inv.created_at ELSE <<>>, " ")[1]

\* the monthly loop over the invoices, from index i on
RECURSIVE InvMonthly(_, _, _, _)
InvMonthly(invoices, i, year, month) ==
    IF i > Len(invoices) THEN <<>>
    ELSE LET inv_d == StrpDate(InvDateStr(invoices[i]))
         IN  IF ~inv_d[1]
             THEN InvMonthly(invoices, i + 1, year, month)
             ELSE IF inv_d[2] = year /\ inv_d[3] = month
                  THEN <<invoices[i]>> \o InvMonthly(invoices, i + 1, year, month)
                  ELSE InvMonthly(invoices, i + 1, year, month)

\* the monthly loop over the expenses, from index i on
RECURSIVE ExpMonthly(_, _, _, _)
ExpMonthly(expenses_data, i, year, month) ==
    IF i > Len(expenses_data) THEN <<>>
    ELSE LET exp_date_str == Get(expenses_data[i], "date")
         IN  IF ~Truthy(exp_date_str)
             THEN ExpMonthly(expenses_data, i + 1, year, month)
             ELSE LET exp_d == StrpDate(exp_date_str)
                  IN  IF ~exp_d[1]
                      THEN ExpMonthly(expenses_data, i + 1, year, month)
                      ELSE IF exp_d[2] = year /\ exp_d[3] = month
                           THEN <<expenses_data[i]>>
                                    \o ExpMonthly(expenses_data, i + 1, year, month)
                           ELSE ExpMonthly(expenses_data, i + 1, year, month)

\* the daily loop over the invoices, from index i on; d is <<y, m, d>>
RECURSIVE InvDaily(_, _, _)
InvDaily(invoices, i, d) ==
    IF i > Len(invoices) THEN <<>>
    ELSE LET inv_d == StrpDate(InvDateStr(invoices[i]))
         IN  IF ~inv_d[1]
             THEN InvDaily(invoices, i + 1, d)
             ELSE IF <<inv_d[2], inv_d[3], inv_d[4]>> = d
                  THEN <<invoices[i]>> \o InvDaily(invoices, i + 1, d)
                  ELSE InvDaily(invoices, i + 1, d)

\* [exp for exp in expenses_data if exp.get("date") == selected_date]
ExpDaily(expenses_data, selected_date) ==
    SelectSeq(expenses_data, LAMBDA exp : Get(exp, "date") = selected_date)

\* the filter of /reports: the filtered lists, the label, and selected_date
\* as it stands after the daily branch
ReportFilter(doc, period, date_arg, selected_month) ==
    IF period = Monthly
    THEN LET ym == YearMonth(selected_month)
         IN  [inv_filtered |-> InvMonthly(doc.invoices, 1, ym[1], ym[2]),
              exp_filtered |-> ExpMonthly(doc.expenses, 1, ym[1], ym[2]),
              label |-> Str(ym[1]) \o <<"-">> \o Pad(ym[2], 2) \o <<" (Monthly)">>,
              selected_date |-> date_arg]
    ELSE LET parsed == StrpDate(date_arg)
             d == IF parsed[1] THEN <<parsed[2], parsed[3], parsed[4]>>
                  ELSE <<NowYear, NowMonth, NowDay>>
             selected_date == IF parsed[1] THEN date_arg ELSE FmtDate(d[1], d[2], d[3])
         IN  [inv_filtered |-> InvDaily(doc.invoices, 1, d),
              exp_filtered |-> ExpDaily(doc.expenses, selected_date),
              label |-> selected_date \o <<" (Daily)">>,
              selected_date |-> selected_date]

\* sum(float(inv.get("total") or 0) for inv in inv_filtered)
RECURSIVE SumTotal(_)
SumTotal(inv_filtered) ==
    IF inv_filtered = <<>> THEN 0
    ELSE (IF "total" \in DOMAIN Head(inv_filtered) THEN Head(inv_filtered).total ELSE 0)
             + SumTotal(Tail(inv_filtered))

\* sum(float(exp.get("amount") or 0) for exp in exp_filtered)
RECURSIVE SumAmount(_)
SumAmount(exp_filtered) ==
    IF exp_filtered = <<>> THEN 0
    ELSE (IF "amount" \in DOMAIN Head(exp_filtered) THEN Head(exp_filtered).amount ELSE 0)
             + SumAmount(Tail(exp_filtered))

NoActivity == <<"No financial activity recorded for this period.">>

PeriodIs == ". The period is "

\* a trend that counts a net of zero as a profit
Trend_nonneg(net_total) ==
    IF net_total >= 0 THEN "profitable" ELSE "loss-making"

Trend(net_total) ==
    IF net_total > 0 THEN "profitable"
    ELSE IF net_total < 0 THEN "loss-making"
    ELSE "balanced"

\* the narrative summary
AiSummary(label, sales_total, expenses_total, net_total, invoice_count, expense_count) ==
    IF invoice_count = 0 /\ expense_count = 0
    THEN NoActivity
    ELSE <<"AI summary: For ">> \o label \o <<", total sales are Rs. ">>
             \o Fmt2f(sales_total) \o <<" across ">> \o Str(invoice_count)
             \o <<" invoice(s), with expenses of Rs. ">> \o Fmt2f(expenses_total)
             \o <<PeriodIs, Trend(net_total), " with a net of Rs. ">>
             \o Fmt2f(net_total) \o <<". ">>
             \o (IF expenses_total > 0
                 THEN <<"Consider reviewing infrastructure and operational costs to optimize profit.">>
                 ELSE <<"No expenses recorded, so all sales are currently counted as profit.">>)

\* the report dict
Report(f) ==
    LET sales_total == SumTotal(f.inv_filtered)
        expenses_total == SumAmount(f.exp_filtered)
        net_total == sales_total - expenses_total
    IN  [label |-> f.label,
         sales_total |-> sales_total,
         expenses_total |-> expenses_total,
         net_total |-> net_total,
         invoice_count |-> Len(f.inv_filtered),
         expense_count |-> Len(f.exp_filtered),
         invoices |-> f.inv_filtered,
         expenses |-> f.exp_filtered,
         ai_summary |-> AiSummary(f.label, sales_total, expenses_total, net_total,
                                  Len(f.inv_filtered), Len(f.exp_filtered))]

reports(args) ==
    LET period == IF Truthy(args.period) THEN args.period ELSE Daily
        date_arg == IF Truthy(args.date) THEN args.date ELSE Today
        selected_month == IF Truthy(args.month) THEN args.month ELSE CurrentMonth
    IN  \E f \in {ReportFilter(data, period, date_arg, selected_month)} :
            /\ resp' = [op |-> "reports", saves |-> 0,
                        args |-> args,
                        report |-> Report(f),
                        period |-> period,
                        selected_date |-> f.selected_date,
                        selected_month |-> selected_month]
            /\ UNCHANGED <<data, disk, now>>

-----------------------------------------------------------------------------
(* GET /reports/export                                                     *)

\* The query strings a run may send to /reports/export.
ExportQueries ==
    {[period |-> Daily, date |-> <<"a", "b", "c">>, month |-> None],
     [period |-> Monthly, date |-> None,
      month |-> <<"2", "0", "2", "4", "-", "0", "3">>]}

\* the filter of /reports/export: the same two branches as /reports
ExportFilter(doc, period, date_arg, selected_month) ==
    IF period = Monthly
    THEN LET ym == YearMonth(selected_month)
         IN  [inv_filtered |-> InvMonthly(doc.invoices, 1, ym[1], ym[2]),
              exp_filtered |-> ExpMonthly(doc.expenses, 1, ym[1], ym[2]),
              label |-> Str(ym[1]) \o <<"-">> \o Pad(ym[2], 2) \o <<" (Monthly)">>,
              selected_date |-> date_arg]
    ELSE LET parsed == StrpDate(date_arg)
             d == IF parsed[1] THEN <<parsed[2], parsed[3], parsed[4]>>
                  ELSE <<NowYear, NowMonth, NowDay>>
             selected_date == IF parsed[1] THEN date_arg ELSE FmtDate(d[1], d[2], d[3])
         IN  [inv_filtered |-> InvDaily(doc.invoices, 1, d),
              exp_filtered |-> ExpDaily(doc.expenses, selected_date),
              label |-> selected_date \o <<" (Daily)">>,
              selected_date |-> selected_date]

\* x or "-"
OrDash(x) == IF Truthy(x) THEN x ELSE <<"-">>

\* the row written for one filtered invoice
InvoiceRow(inv) ==
    <<OrEmpty(Get(inv, "invoice_number")),
      IF Truthy(Get(inv, "invoice_date")) THEN inv.invoice_date
      ELSE IF Truthy(Get(inv, "created_at")) THEN Split(inv.created_at, " ")[1]
      ELSE <<>>,
      OrDash(Get(inv, "customer_name")),
      Fmt2f(SumTotal(<<inv>>)),
      OrDash(Get(inv, "payment_mode"))>>

\* the row written for one filtered expense
ExpenseRow(exp) ==
    <<OrEmpty(Get(exp, "date")),
      OrEmpty(Get(exp, "description")),
      OrDash(Get(exp, "category")),
      Fmt2f(SumAmount(<<exp>>))>>

\* the rows handed to the csv writer, in order
CsvRows(f) ==
    LET sales_total == SumTotal(f.inv_filtered)
        expenses_total == SumAmount(f.exp_filtered)
        net_total == sales_total - expenses_total
    IN  <<<<<<"Report">>, f.label>>,
          <<<<"Total sales">>, Fmt2f(sales_total)>>,
          <<<<"Total expenses">>, Fmt2f(expenses_total)>>,
          <<<<"Net (sales - expenses)">>, Fmt2f(net_total)>>,
          <<>>,
          <<<<"Invoices">>>>,
          <<<<"Invoice #">>, <<"Date">>, <<"Customer">>, <<"Total">>, <<"Payment mode">>>>>>
        \o [i \in 1..Len(f.inv_filtered) |-> InvoiceRow(f.inv_filtered[i])]
        \o <<<<>>,
             <<<<"Expenses">>>>,
             <<<<"Date">>, <<"Description">>, <<"Category">>, <<"Amount">>>>>>
        \o [i \in 1..Len(f.exp_filtered) |-> ExpenseRow(f.exp_filtered[i])]

export_report(args) ==
    LET period == IF Truthy(args.period) THEN args.period ELSE Daily
        date_arg == IF Truthy(args.date) THEN args.date ELSE Today
        selected_month == IF Truthy(args.month) THEN args.month ELSE CurrentMonth
    IN  \E f \in {ExportFilter(data, period, date_arg, selected_month)} :
            /\ resp' = [op |-> "export_report", saves |-> 0,
                        args |-> args,
                        csv |-> CsvRows(f),
                        filename |-> <<"report-">> \o period \o <<"-">>
                                         \o (IF period = Monthly THEN selected_month
                                             ELSE f.selected_date)
                                         \o <<".csv">>]
            /\ UNCHANGED <<data, disk, now>>

Next ==
    \/ Tick
    \/ \E form \in InvoiceForms : new_invoice(form)
    \/ \E invoice_id \in RequestIds : delete_invoice(invoice_id)
    \/ \E invoice_id \in RequestIds : convert_credit_to_cash(invoice_id)
    \/ \E form \in ExpenseForms : expenses(form)
    \/ \E form \in SettingsForms : settings(form)
    \/ \E args \in ReportQueries : reports(args)
    \/ \E args \in ExportQueries : export_report(args)

Spec == Init /\ [][Next]_vars

-----------------------------------------------------------------------------
(* Properties.                                                             *)

\* the numeric suffix of an invoice number
Suffix(invoice_number) == DigitsVal(Split(invoice_number, "-")[3])

\* C1: no two stored invoices have the same invoice_number.
C1_InvoiceNumbersUnique ==
    \A i, j \in 1..Len(data.invoices) :
        i # j => data.invoices[i].invoice_number # data.invoices[j].invoice_number

\* two invoices are stored whose numbers carry different years
C1_Witness ==
    \E i, j \in 1..Len(data.invoices) :
        Split(data.invoices[i].invoice_number, "-")[2]
            # Split(data.invoices[j].invoice_number, "-")[2]

\* C2: invoice_counter goes up by exactly 1 in a step that creates an invoice
\* and is unchanged by every other step; the suffix of the number handed out
\* is the new counter, above the suffix of every invoice stored before.
C2_CounterStepsByOne ==
    [][IF Len(data'.invoices) = Len(data.invoices) + 1
       THEN /\ data'.invoice_counter = data.invoice_counter + 1
            /\ Suffix(data'.invoices[Len(data'.invoices)].invoice_number)
                   = data'.invoice_counter
            /\ \A i \in 1..Len(data.invoices) :
                   Suffix(data.invoices[i].invoice_number) < data'.invoice_counter
       ELSE data'.invoice_counter = data.invoice_counter]_vars

\* an invoice has been deleted after two creations and the counter kept
C2_Witness ==
    /\ resp.op = "delete_invoice"
    /\ resp.saves = 1
    /\ data.invoice_counter >= 2
    /\ Len(data.invoices) < data.invoice_counter

\* the sum of line_total over the first n items
RECURSIVE LineTotals(_, _)
LineTotals(items, n) ==
    IF n = 0 THEN 0 ELSE LineTotals(items, n - 1) + items[n].line_total

MarkerCount(notes) == Cardinality({k \in 1..Len(notes) : notes[k] = MarkerText})

\* the index of the first stored invoice whose id is invoice_id
FirstWithId(invoice_id) ==
    CHOOSE i \in 1..Len(data.invoices) :
        /\ data.invoices[i].id = invoice_id
        /\ \A j \in 1..(i - 1) : data.invoices[j].id # invoice_id

\* C4: a conversion request for an id whose invoice is in CREDIT mode, in any
\* spelling, sets payment_mode to "CASH" and adds exactly one conversion note;
\* the same request made again right after it is rejected as not in CREDIT
\* mode, changes nothing, and the notes hold the conversion note once.  (A
\* step that leaves the clock alone and ends with the response of a
\* conversion request is a conversion request for resp'.invoice_id.)
C4_ConvertOnceThenRejected ==
    [][(/\ now' = now
        /\ resp'.op = "convert_credit_to_cash"
        /\ \E i \in 1..Len(data.invoices) : data.invoices[i].id = resp'.invoice_id)
       => LET i == FirstWithId(resp'.invoice_id)
          IN  /\ Upper(OrEmpty(data.invoices[i].payment_mode)) = Credit
                 => /\ data'.invoices[i].payment_mode = Cash
                    /\ MarkerCount(data'.invoices[i].notes)
                           = MarkerCount(data.invoices[i].notes) + 1
                    /\ resp'.flash[2] = "success"
              /\ (/\ resp.op = "convert_credit_to_cash"
                  /\ resp.flash[2] = "success"
                  /\ resp.invoice_id = resp'.invoice_id)
                 => /\ resp'.flash = <<"Invoice is not in CREDIT payment mode.",
                                       "error">>
                    /\ data' = data
                    /\ disk' = disk
                    /\ MarkerCount(data.invoices[i].notes) = 1]_vars

\* a conversion request has been rejected for an invoice converted before
C4_Witness ==
    /\ resp.op = "convert_credit_to_cash"
    /\ resp.flash[1] = "Invoice is not in CREDIT payment mode."
    /\ \E i \in 1..Len(data.invoices) :
           /\ data.invoices[i].id = resp.invoice_id
           /\ i = FirstWithId(resp.invoice_id)
           /\ data.invoices[i].payment_mode = Cash
           /\ MarkerCount(data.invoices[i].notes) = 1
           /\ Len(data.invoices[i].notes) > Len(ConversionNote)

\* C5 as claimed: between requests the file holds the Document in memory.
C5_FileEqualsMemory == disk = SaveData(data)

\* what a fresh start would load from the file
Reload(file) == EnsureExpenses(LoadData(file))

\* C5: every step that changes the Document writes it to the file, and once
\* the file holds the Document it holds it after every later step; before the
\* first change the file is as it was found at startup, and loading it again
\* gives the Document in memory.
C5_SavedAfterEveryChange ==
    [][/\ Reload(disk) = data
       /\ Reload(disk') = data'
       /\ data' # data => disk' = SaveData(data')
       /\ disk = SaveData(data) => disk' = SaveData(data')]_vars

\* a change has been saved over a file that lacked the expenses field
C5_Witness ==
    /\ resp.saves > 0
    /\ disk = SaveData(data)
    /\ \E i \in 1..Len(data.invoices) : data.invoices[i] = LegacyInvoice
    /\ data.store_settings # NoSettings

\* C6: a delete request for an id that no stored invoice has leaves the
\* Document and the file as they were and reports not-found; a delete request
\* writes the file only when it removed an invoice.
C6_DeleteMissingIsNoOp ==
    [][\A invoice_id \in RequestIds :
           delete_invoice(invoice_id)
           => /\ (\A i \in 1..Len(data.invoices) : data.invoices[i].id # invoice_id)
                 => /\ data' = data
                    /\ disk' = disk
                    /\ resp'.saves = 0
                    /\ resp'.flash = <<"Invoice not found.", "error">>
              /\ disk' # disk => Len(data'.invoices) = Len(data.invoices) - 1]_vars

\* a delete request found nothing, with invoices stored and a file that the
\* request would have changed had it saved
C6_Witness ==
    /\ resp.op = "delete_invoice"
    /\ resp.flash[1] = "Invoice not found."
    /\ data.invoices # <<>>
    /\ disk # SaveData(data)

\* the text that no date or month parser accepts
Unparsable == <<"a", "b", "c">>

\* C7 as claimed: a report whose date filter cannot be parsed is built for
\* today (daily) or the current year and month (monthly), and the value
\* echoed back is that substitute.
C7_EchoesSubstitute ==
    [][\A args \in ReportQueries :
           reports(args)
           => /\ (resp'.period # Monthly /\ args.date = Unparsable)
                 => /\ resp'.report.label = Today \o <<" (Daily)">>
                    /\ resp'.selected_date = Today
              /\ (resp'.period = Monthly /\ args.month = Unparsable)
                 => /\ resp'.report.label = CurrentMonth \o <<" (Monthly)">>
                    /\ resp'.selected_month = CurrentMonth]_vars

\* the sum of f over the first n rows
RECURSIVE SumOver(_, _, _)
SumOver(rows, field, n) ==
    IF n = 0 THEN 0 ELSE SumOver(rows, field, n - 1) + rows[n][field]

\* the trend a net total stands for
TrendOf(net_total) ==
    CASE net_total > 0 -> "profitable"
      [] net_total < 0 -> "loss-making"
      [] net_total = 0 -> "balanced"

\* C8: in every report sales_total is the sum of total over the filtered
\* invoices, expenses_total the sum of amount over the filtered expenses,
\* net_total their difference; the narrative is the no-activity sentence when
\* both filtered lists are empty and names the trend of net_total otherwise.
C8_ReportTotalsAndTrend ==
    resp.op = "reports"
    => LET r == resp.report
       IN  /\ r.sales_total = SumOver(r.invoices, "total", Len(r.invoices))
           /\ r.expenses_total = SumOver(r.expenses, "amount", Len(r.expenses))
           /\ r.net_total = r.sales_total - r.expenses_total
           /\ r.invoice_count = Len(r.invoices)
           /\ r.expense_count = Len(r.expenses)
           /\ IF r.invoices = <<>> /\ r.expenses = <<>>
              THEN r.ai_summary = NoActivity
              ELSE \E k \in 1..(Len(r.ai_summary) - 1) :
                       /\ r.ai_summary[k] = PeriodIs
                       /\ r.ai_summary[k + 1] = TrendOf(r.net_total)

\* a report of invoices and expenses that cancel out
C8_Witness ==
    /\ resp.op = "reports"
    /\ resp.report.invoices # <<>>
    /\ resp.report.expenses # <<>>
    /\ resp.report.sales_total # 0
    /\ resp.report.net_total = 0

March2024 == <<"2", "0", "2", "4", "-", "0", "3">>

\* the effective date of an invoice: invoice_date if present, else the date
\* portion of created_at
EffectiveDate(inv) ==
    IF "invoice_date" \in DOMAIN inv /\ inv.invoice_date # <<>>
    THEN inv.invoice_date
    ELSE SubSeq(inv.created_at, 1, 10)

\* the text is a calendar date of March 2024
InMarch2024(text) ==
    LET d == StrpDate(text) IN d[1] /\ d[2] = 2024 /\ d[3] = 3

\* C9: a monthly report, and a monthly export, for 2024-03 holds exactly the
\* stored invoices whose effective date is a date of March 2024 and exactly
\* the stored expenses whose date is one, in stored order; every other entry,
\* and every entry whose date is no calendar date, is left out.
C9_MonthlyHoldsExactlyTheMonth ==
    LET inMonthInv == SelectSeq(data.invoices, LAMBDA inv : InMarch2024(EffectiveDate(inv)))
        inMonthExp == SelectSeq(data.expenses, LAMBDA exp : InMarch2024(exp.date))
    IN  /\ (resp.op = "reports" /\ resp.period = Monthly /\ resp.args.month = March2024)
           => /\ resp.report.invoices = inMonthInv
              /\ resp.report.expenses = inMonthExp
        /\ (resp.op = "export_report" /\ resp.args.period = Monthly
                /\ resp.args.month = March2024)
           => /\ Len(resp.csv) = 10 + Len(inMonthInv) + Len(inMonthExp)
              /\ \A k \in 1..Len(inMonthInv) :
                     resp.csv[7 + k][1] = inMonthInv[k].invoice_number
              /\ \A k \in 1..Len(inMonthExp) :
                     resp.csv[10 + Len(inMonthInv) + k][1] = inMonthExp[k].date

\* a monthly report for 2024-03 that holds an invoice and an expense and
\* leaves a stored invoice out
C9_Witness ==
    /\ resp.op = "reports"
    /\ resp.period = Monthly
    /\ resp.args.month = March2024
    /\ resp.report.invoices # <<>>
    /\ Len(resp.report.invoices) < Len(data.invoices)
    /\ resp.report.expenses # <<>>

\* the fields of an invoice that a conversion may change
Convertible == {"payment_mode", "notes"}

\* C10: a step leaves every stored invoice as it is, except that a deletion
\* takes one invoice out, a creation puts one at the end, and a conversion
\* changes the payment_mode and notes of one; a report or an export changes
\* neither the Document nor the file.
C10_InvoicesAreFrozen ==
    [][/\ CASE Len(data'.invoices) = Len(data.invoices) + 1
                 -> SubSeq(data'.invoices, 1, Len(data.invoices)) = data.invoices
            [] Len(data'.invoices) = Len(data.invoices) - 1
                 -> \E k \in 1..Len(data.invoices) :
                        data'.invoices = SubSeq(data.invoices, 1, k - 1)
                                             \o SubSeq(data.invoices, k + 1,
                                                       Len(data.invoices))
            [] Len(data'.invoices) = Len(data.invoices)
                 -> \A i \in 1..Len(data.invoices) :
                        /\ DOMAIN data'.invoices[i] = DOMAIN data.invoices[i]
                        /\ \A f \in DOMAIN data.invoices[i] \ Convertible :
                               data'.invoices[i][f] = data.invoices[i][f]
                        /\ data'.invoices[i] # data.invoices[i]
                           => /\ resp'.op = "convert_credit_to_cash"
                              /\ resp'.flash[2] = "success"
            [] OTHER -> FALSE
       /\ (resp' # resp /\ resp'.op \in {"reports", "export_report"})
          => data' = data /\ disk' = disk]_vars

\* an invoice has been converted with another invoice stored beside it
C10_Witness ==
    /\ resp.op = "convert_credit_to_cash"
    /\ resp.flash[2] = "success"
    /\ Len(data.invoices) >= 2

\* C11: a creation gives the new invoice the id str(number of invoices stored
\* before it + 1), the id the response redirects to, and changes no id already
\* stored; the ids of the stored invoices are therefore not kept distinct
\* (C11_Witness is a state where two of them are equal).
C11_IdIsCountPlusOne ==
    [][Len(data'.invoices) = Len(data.invoices) + 1
       => LET n == Len(data.invoices)
          IN  /\ resp'.op = "new_invoice"
              /\ data'.invoices[n + 1].id = Str(n + 1)
              /\ resp'.invoice.id = Str(n + 1)
              /\ \A i \in 1..n :
                     Get(data'.invoices[i], "id") = Get(data.invoices[i], "id")]_vars

\* an invoice has just been created after a deletion, and its id is the id of
\* an invoice stored earlier
C11_Witness ==
    /\ resp.op = "new_invoice"
    /\ Len(data.invoices) >= 2
    /\ Len(data.invoices) < data.invoice_counter
    /\ \E i \in 1..(Len(data.invoices) - 1) :
           data.invoices[i].id = data.invoices[Len(data.invoices)].id

====
